---- MODULE Spec2Model ----
(***************************************************************************)
(* A model of the TWS backend: an Express application over three mongoose  *)
(* collections (users, signals, feed posts).  Every route handler is an    *)
(* async function; the handlers of different requests interleave at their  *)
(* awaits, which are the store round trips.  A handler that reads, decides *)
(* and then writes is therefore modelled as two actions (the read and the  *)
(* write), with the request in flight kept in a slot between them; a       *)
(* handler with a single store round trip is one action.                   *)
(***************************************************************************)
EXTENDS Integers, Sequences, FiniteSets, Bags, TLC

VARIABLES
    users,      \* the users collection: a sequence, a user's _id is its index
    signals,    \* the signals collection, in insertion order
    posts,      \* the feedposts collection, in insertion order
    now,        \* Date.now(), in clock ticks
    pending,    \* the requests in flight: a bag of the handlers' local states
    resp,       \* the last response sent, together with the request it answers
    signupLog,  \* history: what each 201 signup response carried
    track,      \* history: two sequential like requests of one user on one post
    race        \* history: two interleaved like requests of two users on one post

vars == <<users, signals, posts, now, pending, resp, signupLog, track, race>>

----------------------------------------------------------------------------
(* Bounds of the model *)

MaxInFlight == 2     \* requests in flight (between their read and their write) at once
MaxTime == 1         \* the clock stops ticking here; a tick is a day
MaxSignals == 2      \* signals stored
MaxPosts == 1        \* feed posts stored
MaxComments == 2     \* comments on a post
MaxVersion == 4      \* writes to a post (its version key)

(* Program constants *)

PasswordMinLen == 6
TokenTTL == 1

----------------------------------------------------------------------------
(* Values *)

Undefined == "undefined"
None == "none"
NotFound == 0                \* the null of a findOne or findById; ids start at 1
NoToken == [sig |-> "none"]  \* a response that carries no token
Times == 0 .. MaxTime

ValidEmails == {"a@x.com", "b@x.com"}
Emails == ValidEmails \cup {"not-an-email"}
GoodPassword == <<1, 2, 3, 4, 5, 6>>
OtherPassword == <<6, 5, 4, 3, 2, 1>>
ShortPassword == <<1, 2, 3>>
SignupPasswords == {GoodPassword, ShortPassword}
LoginPasswords == {GoodPassword, OtherPassword, <<>>}
PremiumInputs == {"true", Undefined}    \* the JSON value of isPremium, when given
Roles == {"user", "admin"}

isEmail(e) == e \in ValidEmails

(* bcrypt.hash and bcrypt.compare: the hash is never the plaintext, and only
   the hashed password compares equal. *)
bcryptHash(password) == <<"bcrypt", password>>
bcryptCompare(password, hash) == hash = bcryptHash(password)

(* jwt.sign({ userId }, JWT_SECRET, { expiresIn: "1d" }) and jwt.verify *)
WrongUserSign(userId, t) ==
    [userId |-> userId + 1, exp |-> t + TokenTTL, sig |-> "JWT_SECRET"]
jwtSign(userId, t) ==
    [userId |-> userId, exp |-> t + TokenTTL, sig |-> "JWT_SECRET"]
jwtVerify(token, t) == token.sig = "JWT_SECRET" /\ t < token.exp

(* The Authorization headers a client sends: none, a forged token, the token
   a signup returned, or the token of a login made just before the request
   (a user who knows the password can log in at any time). *)
NoHeader == [scheme |-> "none"]
ForgedToken == [userId |-> 1, exp |-> MaxTime + TokenTTL + 1, sig |-> "forged"]
ObtainableTokens ==
    {e.token : e \in signupLog} \cup {jwtSign(id, now) : id \in DOMAIN users}
Headers == {NoHeader} \cup {[scheme |-> "Bearer", token |-> tok] : tok \in ObtainableTokens \cup {ForgedToken}}

----------------------------------------------------------------------------
(* Store queries *)

(* User.findOne({ email }) *)
findOneByEmail(email) ==
    IF \E id \in DOMAIN users : users[id].email = email
    THEN CHOOSE id \in DOMAIN users : users[id].email = email
    ELSE NotFound

(* User.findOne({ email, role }) *)
AnyRoleFindOne(email, role) == findOneByEmail(email)
findOneByEmailRole(email, role) ==
    IF \E id \in DOMAIN users : users[id].email = email /\ users[id].role = role
    THEN CHOOSE id \in DOMAIN users : users[id].email = email /\ users[id].role = role
    ELSE NotFound

(* The unique index on users.email: an insert of a second document with the
   same email is rejected by the store (a duplicate-key error). *)
NoUniqueIndex(email) == TRUE
uniqueIndexAllows(email) == \A id \in DOMAIN users : users[id].email # email

----------------------------------------------------------------------------
(* Middleware *)

(* authMiddleware: the outcome for a request with this Authorization header.
   On success the stored user is attached to the request. *)
authMiddleware(header) ==
    IF header = NoHeader
    THEN [ok |-> FALSE, status |-> 401, error |-> "Authentication required"]
    ELSE IF ~jwtVerify(header.token, now)
    THEN [ok |-> FALSE, status |-> 401, error |-> "Invalid token"]
    ELSE IF header.token.userId \notin DOMAIN users
    THEN [ok |-> FALSE, status |-> 401, error |-> "User not found"]
    ELSE [ok |-> TRUE, id |-> header.token.userId, user |-> users[header.token.userId]]

(* adminMiddleware, on the user authMiddleware attached *)
NoAdminCheck(user) == TRUE
adminMiddleware(user) == user.role = "admin"

(* validateSignup and validateLogin: the list of messages of the violated rules *)
validateSignup(email, password) ==
    (IF isEmail(email) THEN <<>> ELSE <<"Invalid email">>) \o
    (IF Len(password) >= PasswordMinLen THEN <<>>
     ELSE <<"Password must be at least 6 characters">>)
validateLogin(email, password) ==
    (IF isEmail(email) THEN <<>> ELSE <<"Invalid email">>) \o
    (IF Len(password) > 0 THEN <<>> ELSE <<"Password is required">>)

----------------------------------------------------------------------------
(* Requests in flight *)

InFlight == BagCardinality(pending)
start(r) == pending (+) SetToBag({r})
finish(r) == pending (-) SetToBag({r})

----------------------------------------------------------------------------
(* POST /api/auth/user/signup and POST /api/auth/admin/signup *)

SignupResponse(endpoint, email, status, error, errors, token, created) ==
    [op |-> "signup", endpoint |-> endpoint, email |-> email, status |-> status,
     error |-> error, errors |-> errors, token |-> token, created |-> created]

(* Up to the first store round trip: validation, then User.findOne({ email }). *)
SignupFind(endpoint, email, password, isPremium) ==
    /\ InFlight < MaxInFlight
    /\ LET errors == validateSignup(email, password) IN
       IF errors # <<>>
       THEN /\ resp' = SignupResponse(endpoint, email, 400, None, errors, NoToken, NotFound)
            /\ UNCHANGED pending
       ELSE IF findOneByEmail(email) # NotFound
       THEN /\ resp' = SignupResponse(endpoint, email, 400, "Email already exists",
                                      <<>>, NoToken, NotFound)
            /\ UNCHANGED pending
       ELSE /\ pending' = start([kind |-> "signup", endpoint |-> endpoint,
                                 email |-> email, password |-> password,
                                 isPremium |-> isPremium])
            /\ UNCHANGED resp
    /\ UNCHANGED <<users, signals, posts, now, signupLog, track, race>>

(* After the hash: user.save(), jwt.sign, the 201 response.  A save the
   unique index rejects throws, and the handler's catch answers 500. *)
SignupSave(r) ==
    /\ r.kind = "signup"
    /\ LET id == Len(users) + 1
           user == [email |-> r.email,
                    password |-> bcryptHash(r.password),
                    isPremium |-> (r.endpoint = "user" /\ r.isPremium = "true"),
                    role |-> r.endpoint,
                    createdAt |-> now]
           token == jwtSign(id, now)
       IN
       IF uniqueIndexAllows(r.email)
       THEN /\ users' = Append(users, user)
            /\ resp' = SignupResponse(r.endpoint, r.email, 201, None, <<>>, token, id)
            /\ signupLog' = signupLog \cup
                   {[token |-> token, id |-> id, email |-> r.email, role |-> r.endpoint]}
       ELSE /\ resp' = SignupResponse(r.endpoint, r.email, 500, "Server error",
                                      <<>>, NoToken, NotFound)
            /\ UNCHANGED <<users, signupLog>>
    /\ pending' = finish(r)
    /\ UNCHANGED <<signals, posts, now, track, race>>

----------------------------------------------------------------------------
(* POST /api/auth/user/login and POST /api/auth/admin/login *)

LoginResponse(endpoint, email, password, status, error, errors, token) ==
    [op |-> "login", endpoint |-> endpoint, email |-> email, password |-> password,
     status |-> status, error |-> error, errors |-> errors, token |-> token]

Login(endpoint, email, password) ==
    /\ LET errors == validateLogin(email, password)
           id == findOneByEmailRole(email, endpoint)
       IN
       resp' =
         IF errors # <<>>
         THEN LoginResponse(endpoint, email, password, 400, None, errors, NoToken)
         ELSE IF id = NotFound
         THEN LoginResponse(endpoint, email, password, 401, "Invalid credentials",
                            <<>>, NoToken)
         ELSE IF ~bcryptCompare(password, users[id].password)
         THEN LoginResponse(endpoint, email, password, 401, "Invalid credentials",
                            <<>>, NoToken)
         ELSE LoginResponse(endpoint, email, password, 200, None, <<>>,
                            jwtSign(id, now))
    /\ UNCHANGED <<users, signals, posts, now, pending, signupLog, track, race>>

----------------------------------------------------------------------------
(* The clock *)

Tick ==
    /\ now < MaxTime
    /\ now' = now + 1
    /\ UNCHANGED <<users, signals, posts, pending, resp, signupLog, track, race>>

----------------------------------------------------------------------------
(* POST /api/signals (authMiddleware, adminMiddleware).  The title and the
   description are stored as given and read by no handler; they are left out. *)

SignalTypes == {"free", "premium"}
TypeInputs == SignalTypes \cup {"vip"}

(* A response of an authenticated route; user is the id authMiddleware
   attached, NotFound when it attached none. *)
Response(op, user, status, error) ==
    [op |-> op, user |-> user, status |-> status, error |-> error]

CreateSignal(header, type) ==
    /\ LET auth == authMiddleware(header) IN
       IF ~auth.ok
       THEN /\ resp' = Response("createSignal", NotFound, auth.status, auth.error)
            /\ UNCHANGED signals
       ELSE IF ~adminMiddleware(auth.user)
       THEN /\ resp' = Response("createSignal", auth.id, 403, "Admin access required")
            /\ UNCHANGED signals
       ELSE IF type \notin SignalTypes
       THEN /\ resp' = Response("createSignal", auth.id, 400, "Invalid signal type")
            /\ UNCHANGED signals
       ELSE /\ Len(signals) < MaxSignals
            /\ signals' = Append(signals,
                   [type |-> type, createdAt |-> now, createdBy |-> auth.id])
            /\ resp' = Response("createSignal", auth.id, 201, None)
    /\ UNCHANGED <<users, posts, now, pending, signupLog, track, race>>

----------------------------------------------------------------------------
(* GET /api/signals (authMiddleware) *)

(* `since` as the client sends it: absent, a date, or text no date parses
   from.  new Date(since) of such text is an invalid date, which the query
   cannot be cast to: find throws and the handler's catch answers 500. *)
NoSince == [given |-> FALSE]
GarbageSince == [given |-> TRUE, valid |-> FALSE]
SinceDate(t) == [given |-> TRUE, valid |-> TRUE, date |-> t]
SinceInputs == {NoSince, GarbageSince} \cup {SinceDate(t) : t \in Times}

(* Signal.find(query): the ids of the matching signals *)
TierBlindFind(isPremium, since) ==
    {i \in DOMAIN signals : since.given => signals[i].createdAt > since.date}
findSignals(isPremium, since) ==
    {i \in DOMAIN signals :
        /\ isPremium \/ signals[i].type = "free"
        /\ since.given => signals[i].createdAt > since.date}

(* .populate("createdBy", "email") *)
populateCreatedBy(i) ==
    [id |-> i, type |-> signals[i].type, createdAt |-> signals[i].createdAt,
     createdBy |-> [id |-> signals[i].createdBy,
                    email |-> users[signals[i].createdBy].email]]

(* .sort({ createdAt: -1 }): an order of the matching ids, newest first; the
   store fixes no order among signals created at the same tick. *)
sortCreatedAtDesc(ids) ==
    {q \in [1 .. Cardinality(ids) -> ids] :
        /\ \A i, j \in DOMAIN q : i < j =>
              /\ q[i] # q[j]
              /\ signals[q[i]].createdAt >= signals[q[j]].createdAt}

GetSignals(header, since) ==
    /\ LET auth == authMiddleware(header) IN
       IF ~auth.ok
       THEN resp' = Response("getSignals", NotFound, auth.status, auth.error)
       ELSE IF since.given /\ ~since.valid
       THEN resp' = Response("getSignals", auth.id, 500, "Server error") @@
                    [since |-> since, body |-> <<>>]
       ELSE \E q \in sortCreatedAtDesc(findSignals(auth.user.isPremium, since)) :
               resp' = Response("getSignals", auth.id, 200, None) @@
                       [since |-> since,
                        body |-> [k \in DOMAIN q |-> populateCreatedBy(q[k])]]
    /\ UNCHANGED <<users, signals, posts, now, pending, signupLog, track, race>>

----------------------------------------------------------------------------
(* POST /api/feed (authMiddleware, adminMiddleware) *)

TextInputs == {"text", "", Undefined}
truthy(v) == v # "" /\ v # Undefined

CreateFeed(header, imageUrl, caption) ==
    /\ LET auth == authMiddleware(header) IN
       IF ~auth.ok
       THEN /\ resp' = Response("createFeed", NotFound, auth.status, auth.error)
            /\ UNCHANGED posts
       ELSE IF ~adminMiddleware(auth.user)
       THEN /\ resp' = Response("createFeed", auth.id, 403, "Admin access required")
            /\ UNCHANGED posts
       ELSE IF ~truthy(imageUrl) \/ ~truthy(caption)
       THEN /\ resp' = Response("createFeed", auth.id, 400,
                                "Image URL and caption are required")
            /\ UNCHANGED posts
       ELSE /\ Len(posts) < MaxPosts
            /\ posts' = Append(posts,
                   [imageUrl |-> imageUrl, caption |-> caption, likes |-> <<>>,
                    comments |-> <<>>, createdAt |-> now, createdBy |-> auth.id,
                    version |-> 0])
            /\ resp' = Response("createFeed", auth.id, 201, None)
    /\ UNCHANGED <<users, signals, now, pending, signupLog, track, race>>

----------------------------------------------------------------------------
(* Feed posts as mongoose documents.

   findById hands the handler its own copy of the stored document.  The
   handler changes the copy, and save() sends the store only what changed:
     - likes.push(id) and comments.push(c) are sent as $push, applied to the
       array as it is stored at the time of the write, whatever the version;
     - likes.splice(i, 1) is sent as $set of the whole array taken from the
       copy, and only to the document at the version the copy was read at;
       when the stored version has moved on, no document matches, save()
       throws a VersionError and the handler's catch answers 500.
   Every write that is applied increments the version key. *)

(* Array.indexOf, with indices from 1 and NotFound for JavaScript's -1 *)
indexOf(seq, x) ==
    IF \E i \in DOMAIN seq : seq[i] = x
    THEN CHOOSE i \in DOMAIN seq : seq[i] = x /\ \A j \in 1 .. i - 1 : seq[j] # x
    ELSE NotFound

(* Array.splice(i, 1) *)
splice(seq, i) == SubSeq(seq, 1, i - 1) \o SubSeq(seq, i + 1, Len(seq))

PostIdInputs == 1 .. Len(posts) + 1

(* The requests in flight that hold a copy of post p, and their number *)
onPost(p) == {r \in BagToSet(pending) : r.kind \in {"like", "comment"} /\ r.post = p}
inFlightOn(p) == BagCardinality([r \in onPost(p) |-> pending[r]])
commentsInFlightOn(p) ==
    BagCardinality([r \in {x \in onPost(p) : x.kind = "comment"} |-> pending[r]])

----------------------------------------------------------------------------
(* POST /api/feed/:id/like (authMiddleware) *)

(* The body of a 200 response is the handler's copy of the post; of the copy
   the model keeps the array the handler changed. *)
FeedResponse(op, user, post, status, error, body) ==
    [op |-> op, user |-> user, post |-> post, status |-> status, error |-> error,
     body |-> body]

(* Up to the write: Feed.findById, then the toggle on the handler's copy. *)
LikeRead(header, postId) ==
    /\ InFlight < MaxInFlight
    /\ LET auth == authMiddleware(header) IN
       IF ~auth.ok
       THEN /\ resp' = FeedResponse("like", NotFound, postId, auth.status, auth.error, <<>>)
            /\ UNCHANGED pending
       ELSE IF postId \notin DOMAIN posts
       THEN /\ resp' = FeedResponse("like", auth.id, postId, 404, "Feed post not found", <<>>)
            /\ UNCHANGED pending
       ELSE LET feedPost == posts[postId]
                userIndex == indexOf(feedPost.likes, auth.id)
                r == [kind |-> "like", user |-> auth.id, post |-> postId,
                      atomic |-> IF userIndex = NotFound THEN "$push" ELSE "$set",
                      likes |-> IF userIndex = NotFound
                                THEN Append(feedPost.likes, auth.id)
                                ELSE splice(feedPost.likes, userIndex),
                      version |-> feedPost.version]
            IN
            /\ feedPost.version + inFlightOn(postId) < MaxVersion
            /\ pending' = start(r)
            /\ UNCHANGED resp
    /\ UNCHANGED <<users, signals, posts, now, signupLog>>

(* feedPost.save() and the response, which is the handler's copy *)
LikeSave(r) ==
    /\ r.kind = "like"
    /\ LET stored == posts[r.post]
           ok == r.atomic = "$push" \/ stored.version = r.version
           likesAfter ==
               IF ~ok THEN stored.likes
               ELSE IF r.atomic = "$push" THEN Append(stored.likes, r.user)
               ELSE r.likes
       IN
       /\ posts' = IF ok
                   THEN [posts EXCEPT ![r.post].likes = likesAfter,
                                      ![r.post].version = @ + 1]
                   ELSE posts
       /\ resp' = IF ok
                  THEN FeedResponse("like", r.user, r.post, 200, None, r.likes)
                  ELSE FeedResponse("like", r.user, r.post, 500, "Server error", <<>>)
    /\ pending' = finish(r)
    /\ UNCHANGED <<users, signals, now, signupLog>>

----------------------------------------------------------------------------
(* POST /api/feed/:id/comment (authMiddleware) *)

(* Up to the write: the text check, Feed.findById, comments.push on the copy. *)
CommentRead(header, postId, text) ==
    /\ InFlight < MaxInFlight
    /\ LET auth == authMiddleware(header) IN
       IF ~auth.ok
       THEN /\ resp' = FeedResponse("comment", NotFound, postId, auth.status, auth.error, <<>>)
            /\ UNCHANGED pending
       ELSE IF ~truthy(text)
       THEN /\ resp' = FeedResponse("comment", auth.id, postId, 400,
                                    "Comment text is required", <<>>)
            /\ UNCHANGED pending
       ELSE IF postId \notin DOMAIN posts
       THEN /\ resp' = FeedResponse("comment", auth.id, postId, 404, "Feed post not found", <<>>)
            /\ UNCHANGED pending
       ELSE LET feedPost == posts[postId]
                r == [kind |-> "comment", user |-> auth.id, post |-> postId,
                      atomic |-> "$push",
                      pushed |-> [user |-> auth.id, text |-> text, createdAt |-> now],
                      comments |-> Append(feedPost.comments,
                          [user |-> auth.id, text |-> text, createdAt |-> now]),
                      version |-> feedPost.version]
            IN
            /\ feedPost.version + inFlightOn(postId) < MaxVersion
            /\ Len(feedPost.comments) + commentsInFlightOn(postId) < MaxComments
            /\ pending' = start(r)
            /\ UNCHANGED resp
    /\ UNCHANGED <<users, signals, posts, now, signupLog>>

(* The comments of the stored post after the save of request r *)
SetFromCopy(stored, r) == r.comments
commentsSaved(stored, r) == Append(stored.comments, r.pushed)

(* feedPost.save() and the response *)
CommentSave(r) ==
    /\ r.kind = "comment"
    /\ posts' = [posts EXCEPT ![r.post].comments = commentsSaved(posts[r.post], r),
                              ![r.post].version = @ + 1]
    /\ resp' = FeedResponse("comment", r.user, r.post, 200, None, r.comments)
    /\ pending' = finish(r)
    /\ UNCHANGED <<users, signals, now, signupLog>>

----------------------------------------------------------------------------
(* History variables.  They record, step by step, the two situations the
   properties of likes speak about; no handler reads them. *)

NoTrack == [stage |-> 0]
NoRace == [stage |-> 0]

(* History of two sequential likes/unlikes by one user on one post, with no
   other request on the post from the first one's read to the second one's
   response.  stage 1: the first has read; 2: the first was answered 200;
   3: the second has read; 4: the second was answered 200. *)
trackAfterLikeRead(r) ==
    IF track.stage = 2 /\ track.user = r.user /\ track.post = r.post
    THEN [track EXCEPT !.stage = 3, !.req = r]
    ELSE [stage |-> 1, user |-> r.user, post |-> r.post, req |-> r,
          before |-> posts[r.post].likes, first |-> <<>>, second |-> <<>>,
          after |-> <<>>]

trackAfterLikeSave(r, ok, likesAfter) ==
    IF track.stage \in {1, 3} /\ track.req = r /\ ok
    THEN IF track.stage = 1
         THEN [track EXCEPT !.stage = 2, !.first = r.likes]
         ELSE [track EXCEPT !.stage = 4, !.second = r.likes, !.after = likesAfter]
    ELSE IF track.stage # 0 /\ track.post = r.post THEN NoTrack ELSE track

trackAfterComment(p) ==
    IF track.stage # 0 /\ track.post = p THEN NoTrack ELSE track

(* History of two likes/unlikes by two different users on one post that both
   read the post before either writes, with no other request on the post
   until both have been answered.  stage 1: both have read; 2: both answered. *)
raceAfterLikeRead(r) ==
    IF \E x \in onPost(r.post) :
          /\ onPost(r.post) = {x} /\ pending[x] = 1
          /\ x.kind = "like" /\ x.user # r.user
          /\ x.version = posts[r.post].version
    THEN LET x == CHOOSE x \in onPost(r.post) : TRUE IN
         [stage |-> 1, post |-> r.post, a |-> x.user, b |-> r.user,
          before |-> posts[r.post].likes, left |-> {x, r}, after |-> <<>>]
    ELSE IF race.stage # 0 /\ race.post = r.post THEN NoRace ELSE race

raceAfterLikeSave(r, likesAfter) ==
    IF race.stage = 1 /\ r \in race.left
    THEN IF race.left = {r}
         THEN [race EXCEPT !.stage = 2, !.left = {}, !.after = likesAfter]
         ELSE [race EXCEPT !.left = @ \ {r}]
    ELSE IF race.stage # 0 /\ race.post = r.post THEN NoRace ELSE race

raceAfterComment(p) ==
    IF race.stage # 0 /\ race.post = p THEN NoRace ELSE race

(* The request a step put in flight, and the one it answered *)
started == {r \in BagToSet(pending') : CopiesIn(r, pending') > CopiesIn(r, pending)}
finished == {r \in BagToSet(pending) : CopiesIn(r, pending) > CopiesIn(r, pending')}

(* The histories after a step of the feed handlers *)
Observe ==
    IF started # {}
    THEN LET r == CHOOSE r \in started : TRUE IN
         IF r.kind = "like"
         THEN track' = trackAfterLikeRead(r) /\ race' = raceAfterLikeRead(r)
         ELSE track' = trackAfterComment(r.post) /\ race' = raceAfterComment(r.post)
    ELSE IF finished # {}
    THEN LET r == CHOOSE r \in finished : TRUE IN
         IF r.kind = "like"
         THEN /\ track' = trackAfterLikeSave(r, resp'.status = 200, posts'[r.post].likes)
              /\ race' = raceAfterLikeSave(r, posts'[r.post].likes)
         ELSE track' = trackAfterComment(r.post) /\ race' = raceAfterComment(r.post)
    ELSE UNCHANGED <<track, race>>

----------------------------------------------------------------------------
(* Specifications *)

(* The service after start-up, with empty collections *)
Init ==
    /\ users = <<>>
    /\ signals = <<>>
    /\ posts = <<>>
    /\ now = 0
    /\ pending = EmptyBag
    /\ resp = [op |-> "none"]
    /\ signupLog = {}
    /\ track = NoTrack
    /\ race = NoRace

(* Authentication: signups racing on the users collection, logins at either
   endpoint, requests that present a token, and the passing of time. *)
NextAuth ==
    \/ \E email \in Emails, password \in SignupPasswords, isPremium \in PremiumInputs :
          SignupFind("user", email, password, isPremium)
    \/ \E email \in Emails, password \in SignupPasswords :
          SignupFind("admin", email, password, Undefined)
    \/ \E r \in BagToSet(pending) : SignupSave(r)
    \/ \E endpoint \in Roles, email \in Emails, password \in LoginPasswords :
          Login(endpoint, email, password)
    \/ \E header \in Headers : GetSignals(header, NoSince)
    \/ Tick

SpecAuth == Init /\ [][NextAuth]_vars

(* The three accounts the content specifications start from, as three
   signups at tick 0 leave them. *)
Accounts ==
    << [email |-> "admin@x.com", password |-> bcryptHash(GoodPassword),
        isPremium |-> FALSE, role |-> "admin", createdAt |-> 0],
       [email |-> "a@x.com", password |-> bcryptHash(GoodPassword),
        isPremium |-> TRUE, role |-> "user", createdAt |-> 0],
       [email |-> "b@x.com", password |-> bcryptHash(GoodPassword),
        isPremium |-> FALSE, role |-> "user", createdAt |-> 0] >>

InitAccounts ==
    /\ users = Accounts
    /\ signals = <<>>
    /\ posts = <<>>
    /\ now = 0
    /\ pending = EmptyBag
    /\ resp = [op |-> "none"]
    /\ signupLog = {[token |-> jwtSign(id, 0), id |-> id, email |-> Accounts[id].email,
                     role |-> Accounts[id].role] : id \in DOMAIN Accounts}
    /\ track = NoTrack
    /\ race = NoRace

(* Signals and feed posts: creation by admins, the tiered signal list. *)
NextSignals ==
    \/ \E header \in Headers, type \in TypeInputs : CreateSignal(header, type)
    \/ \E header \in Headers, since \in SinceInputs : GetSignals(header, since)
    \/ \E header \in Headers, imageUrl \in TextInputs, caption \in TextInputs :
          CreateFeed(header, imageUrl, caption)
    \/ Tick

SpecSignals == InitAccounts /\ [][NextSignals]_vars

(* The accounts and one feed post of the admin's, as POST /api/feed leaves it *)
InitFeed ==
    /\ users = Accounts
    /\ signals = <<>>
    /\ posts = << [imageUrl |-> "text", caption |-> "text", likes |-> <<>>,
                   comments |-> <<>>, createdAt |-> 0, createdBy |-> 1,
                   version |-> 0] >>
    /\ now = 0
    /\ pending = EmptyBag
    /\ resp = [op |-> "none"]
    /\ signupLog = {[token |-> jwtSign(id, 0), id |-> id, email |-> Accounts[id].email,
                     role |-> Accounts[id].role] : id \in DOMAIN Accounts}
    /\ track = NoTrack
    /\ race = NoRace

(* Likes and comments, interleaved at their store round trips *)
NextFeed ==
    \/ \E header \in Headers, postId \in PostIdInputs :
          LikeRead(header, postId) /\ Observe
    \/ \E r \in BagToSet(pending) : LikeSave(r) /\ Observe
    \/ \E header \in Headers, postId \in PostIdInputs, text \in TextInputs :
          CommentRead(header, postId, text) /\ Observe
    \/ \E r \in BagToSet(pending) : CommentSave(r) /\ Observe

SpecFeed == InitFeed /\ [][NextFeed]_vars

(* The same steps by the two members (and by clients with no valid token),
   without the histories of likes *)
MemberHeaders ==
    {h \in Headers : authMiddleware(h).ok => authMiddleware(h).user.role = "user"}

NextComments ==
    \/ \E header \in MemberHeaders, postId \in PostIdInputs :
          LikeRead(header, postId) /\ UNCHANGED <<track, race>>
    \/ \E r \in BagToSet(pending) : LikeSave(r) /\ UNCHANGED <<track, race>>
    \/ \E header \in MemberHeaders, postId \in PostIdInputs, text \in TextInputs :
          CommentRead(header, postId, text) /\ UNCHANGED <<track, race>>
    \/ \E r \in BagToSet(pending) : CommentSave(r) /\ UNCHANGED <<track, race>>

SpecComments == InitFeed /\ [][NextComments]_vars

----------------------------------------------------------------------------
(* Properties *)

ToSet(seq) == {seq[i] : i \in DOMAIN seq}

(* C7: no two stored users have the same email, whatever their roles, also
   when signups with the same email interleave between their duplicate check
   and their insert. *)
EmailsUnique ==
    \A i, j \in DOMAIN users : i # j => users[i].email # users[j].email

(* A signup passed the duplicate check, and its insert met a user of the
   other role stored meanwhile under the same email. *)
EmailRaceSeen ==
    /\ resp.op = "signup" /\ resp.status = 500
    /\ \E id \in DOMAIN users :
          users[id].email = resp.email /\ users[id].role # resp.endpoint

(* C8: a valid signup that creates no user because the email is taken is
   answered 400 "Email already exists" with no token. *)
DuplicateSignupAnswered400 ==
    (resp.op = "signup" /\ resp.errors = <<>> /\ resp.created = NotFound) =>
        /\ resp.status = 400
        /\ resp.error = "Email already exists"
        /\ resp.token = NoToken

(* C3: the token of every 201 signup response, presented before its expiry,
   passes authMiddleware and attaches the user that signup created (same id,
   email and role), whatever signups, logins and requests came after it. *)
SignupTokenResolves ==
    \A e \in signupLog :
        now < e.token.exp =>
            LET auth == authMiddleware([scheme |-> "Bearer", token |-> e.token]) IN
            /\ auth.ok
            /\ auth.id = e.id
            /\ auth.user.email = e.email
            /\ auth.user.role = e.role

(* The first signup's token is accepted on a request made after a second
   account was created. *)
SignupTokenUsedLater ==
    /\ Len(users) = 2
    /\ \E e \in signupLog : e.id = 1 /\ now < e.token.exp
    /\ resp.op = "getSignals" /\ resp.status = 200 /\ resp.user = 1

(* C4: a login with the right email and password at the endpoint of the other
   role is answered 401 "Invalid credentials" without a token, the very
   response an unknown email or a wrong password gets. *)
CrossRoleLoginFails ==
    resp.op = "login" =>
        /\ (\E id \in DOMAIN users :
               /\ users[id].email = resp.email
               /\ bcryptCompare(resp.password, users[id].password)
               /\ users[id].role # resp.endpoint)
           => resp.status = 401
        /\ resp.status = 401 =>
               /\ resp.error = "Invalid credentials"
               /\ resp.errors = <<>>
               /\ resp.token = NoToken

(* An admin account's email and password were presented to the user login. *)
AdminAtUserLogin ==
    /\ resp.op = "login" /\ resp.endpoint = "user"
    /\ \E id \in DOMAIN users :
          /\ users[id].email = resp.email
          /\ bcryptCompare(resp.password, users[id].password)
          /\ users[id].role = "admin"

(* C1: an authenticated GET /api/signals with no or a parsable `since` is
   answered with exactly the stored signals that the requester's tier admits
   (all for a premium user, the free ones otherwise) and that were created
   strictly after `since` when one was given.  Every handler that changes the
   signals collection also replaces resp, so resp is compared with the
   collection it was computed from. *)
SignalListExact ==
    (/\ resp.op = "getSignals" /\ resp.user # NotFound
     /\ ~resp.since.given \/ resp.since.valid) =>
        /\ resp.status = 200
        /\ {resp.body[k].id : k \in DOMAIN resp.body} =
              {i \in DOMAIN signals :
                  /\ users[resp.user].isPremium \/ signals[i].type = "free"
                  /\ resp.since.given => signals[i].createdAt > resp.since.date}
        /\ \A k, l \in DOMAIN resp.body : k # l => resp.body[k].id # resp.body[l].id
        /\ \A k \in DOMAIN resp.body :
              resp.body[k].type = signals[resp.body[k].id].type
        /\ ~users[resp.user].isPremium =>
              \A k \in DOMAIN resp.body : resp.body[k].type # "premium"

(* A premium user's list holds a premium signal later than the `since` given
   and leaves out an older signal. *)
PremiumListSince ==
    /\ resp.op = "getSignals" /\ resp.status = 200
    /\ users[resp.user].isPremium
    /\ resp.since.given
    /\ \E k \in DOMAIN resp.body : resp.body[k].type = "premium"
    /\ Len(signals) > Len(resp.body)

(* C2: a POST /api/feed or POST /api/signals with the valid token of a user who
   is no admin is answered 403 and changes neither collection, whatever its
   body; every stored signal and feed post was created by an admin. *)
OnlyAdminsCreate ==
    /\ [](/\ \A i \in DOMAIN signals : users[signals[i].createdBy].role = "admin"
          /\ \A p \in DOMAIN posts : users[posts[p].createdBy].role = "admin"
          /\ (/\ resp.op \in {"createSignal", "createFeed"}
              /\ resp.user # NotFound
              /\ users[resp.user].role # "admin") => resp.status = 403)
    /\ [][(resp'.op \in {"createSignal", "createFeed"} /\ resp'.status = 403) =>
             (signals' = signals /\ posts' = posts)]_vars

(* A member was refused the creation of a feed post while signals and posts
   of the admin's are stored. *)
MemberRefused ==
    /\ resp.op = "createFeed" /\ resp.status = 403
    /\ signals # <<>> /\ posts # <<>>

(* C5: a user id appears at most once in the likes of a feed post. *)
LikesUnique ==
    \A p \in DOMAIN posts :
        \A i, j \in DOMAIN posts[p].likes :
            i # j => posts[p].likes[i] # posts[p].likes[j]

(* C6: two sequential like requests of one user leave the likes membership as
   it was; when the user was no liker, the first response has the user among
   the likes, the second has not, and the other likers keep their order. *)
DoubleToggleRestores ==
    track.stage = 4 =>
        /\ ToSet(track.after) = ToSet(track.before)
        /\ track.user \notin ToSet(track.before) =>
              /\ track.user \in ToSet(track.first)
              /\ track.user \notin ToSet(track.second)
              /\ track.after = track.before

(* C9: when likes/unlikes of two different users interleave on one post, both
   take effect: in the stored post each of the two has changed sides, and no
   other liker was added or removed. *)
BothTogglesApply ==
    race.stage = 2 =>
        /\ \A u \in {race.a, race.b} :
              (u \in ToSet(race.after)) # (u \in ToSet(race.before))
        /\ \A u \in DOMAIN users \ {race.a, race.b} :
              (u \in ToSet(race.after)) = (u \in ToSet(race.before))

(* C10: the comments of a post are append-only.  No step removes, changes or
   reorders a stored comment; the save of a comment request, always answered
   200, adds exactly the requester's comment at the end; a request answered
   400 or 404 leaves every post as it is. *)
CommentsAppendOnly ==
    [][/\ \A p \in DOMAIN posts :
             /\ p \in DOMAIN posts'
             /\ Len(posts'[p].comments) >= Len(posts[p].comments)
             /\ SubSeq(posts'[p].comments, 1, Len(posts[p].comments)) = posts[p].comments
       /\ \A r \in finished :
             r.kind = "comment" =>
                /\ resp'.op = "comment" /\ resp'.status = 200 /\ resp'.user = r.user
                /\ Len(posts'[r.post].comments) = Len(posts[r.post].comments) + 1
                /\ LET c == posts'[r.post].comments[Len(posts'[r.post].comments)] IN
                   c.user = r.user /\ c.text = r.pushed.text
                /\ \A p \in DOMAIN posts : p # r.post => posts'[p] = posts[p]
       /\ (resp'.op = "comment" /\ resp'.status \in {400, 404}) => posts' = posts
      ]_vars

(* An unlike that read the post before a comment was saved on it, and wrote
   after: the store refused the write, and the comment is in place. *)
LikeCrossedComment ==
    /\ resp.op = "like" /\ resp.status = 500
    /\ posts[1].version = 2
    /\ Len(posts[1].comments) = 1
    /\ Len(posts[1].likes) = 1

====
